---- MODULE Spec2Model ----
(***************************************************************************)
(* Model of analyze_instagram.py: the archive unpacker, the snapshot       *)
(* locator, the relationship loaders, the diff reporter and the CLI flow.  *)
(*                                                                         *)
(* Strings are sequences of one-character strings, so that split, join,    *)
(* glob matching, strptime, isoformat, int() and the ordering used by      *)
(* sorted() are computed and not assumed.  The data directory is the       *)
(* sequence of its entries in the order scandir yields them.               *)
(***************************************************************************)
EXTENDS Integers, Sequences, FiniteSets, TLC

VARIABLES
    dataDir,     \* DATA_DIR: sequence of entries [name, kind, followers, following]
    pc,          \* position of the running call
    pending,     \* unpack_archives: the archives glob() still has to yield
    out,         \* everything printed so far
    runs,        \* completed runs of unpack_archives
    dirAtStart,  \* DATA_DIR as it was when the current/last unpack run began
    extracted,   \* names of the archives extracted by the current/last run
    deleted,     \* names of the archives unlinked by the current/last run
    accounts,    \* main: the list returned by list_accounts()
    account,     \* main: the selected account
    snapshots,   \* main: the list returned by list_snapshots(account)
    inputs,      \* main: the lines read from stdin so far
    args,        \* the arguments of the last summarize_changes call
    result,      \* what the last summarize_changes call printed, opened and returned
    exported     \* files written under data/export

vars == <<dataDir, pc, pending, out, runs, dirAtStart, extracted, deleted,
          accounts, account, snapshots, inputs, args, result, exported>>

(***************************************************************************)
(* Bounds                                                                  *)
(***************************************************************************)
MaxZipDepth == 2
MaxEntries == 3
MaxRuns == 2
MaxDirs == 2
MaxFileEntries == 2

(***************************************************************************)
(* Strings                                                                 *)
(***************************************************************************)
\* the characters in code point order, which is the order str comparison uses
Alphabet ==
    <<" ", "+", "-", ".", "0", "1", "2", "3", "4", "5", "6", "7", "8", "9",
      "Y", "_", "a", "b", "c", "d", "e", "f", "g", "h", "i", "j", "k", "l", "m",
      "n", "o", "p", "q", "r", "s", "t", "u", "v", "w", "x", "y", "z">>

\* ord(c), up to the gaps between the characters in use
CodePoint == [c \in {Alphabet[i] : i \in 1..Len(Alphabet)} |->
                 CHOOSE i \in 1..Len(Alphabet) : Alphabet[i] = c]

Ord(c) == CodePoint[c]

Digits == {"0", "1", "2", "3", "4", "5", "6", "7", "8", "9"}

DigitVal(c) == Ord(c) - Ord("0")

IsDigits(s) == \A i \in 1..Len(s) : s[i] \in Digits

RECURSIVE DecVal(_)
DecVal(s) ==
    IF s = <<>> THEN 0
    ELSE DecVal(SubSeq(s, 1, Len(s) - 1)) * 10 + DigitVal(s[Len(s)])

\* str.__lt__
StrLess(s, t) ==
    \E i \in 1..Len(t) :
        /\ i <= Len(s) + 1
        /\ \A j \in 1..(i - 1) : s[j] = t[j]
        /\ (i = Len(s) + 1 \/ Ord(s[i]) < Ord(t[i]))

StartsWith(s, p) == Len(s) >= Len(p) /\ SubSeq(s, 1, Len(p)) = p

EndsWith(s, p) == Len(s) >= Len(p) /\ SubSeq(s, Len(s) - Len(p) + 1, Len(s)) = p

RECURSIVE SplitFrom(_, _, _, _)
SplitFrom(s, sep, i, cur) ==
    IF i > Len(s) THEN <<cur>>
    ELSE IF s[i] = sep THEN <<cur>> \o SplitFrom(s, sep, i + 1, <<>>)
    ELSE SplitFrom(s, sep, i + 1, Append(cur, s[i]))

\* str.split(sep)
Split(s, sep) == SplitFrom(s, sep, 1, <<>>)

RECURSIVE Join(_, _)
\* sep.join(parts)
Join(parts, sep) ==
    IF parts = <<>> THEN <<>>
    ELSE IF Len(parts) = 1 THEN parts[1]
    ELSE parts[1] \o <<sep>> \o Join(Tail(parts), sep)

RECURSIVE Strip(_)
\* str.strip()
Strip(s) ==
    IF s = <<>> THEN s
    ELSE IF s[1] = " " THEN Strip(Tail(s))
    ELSE IF s[Len(s)] = " " THEN Strip(SubSeq(s, 1, Len(s) - 1))
    ELSE s

\* str.lower()
Lower(s) == [i \in 1..Len(s) |-> IF s[i] = "Y" THEN "y" ELSE s[i]]

\* the digits of an int() literal without its sign: digits, single
\* underscores allowed between them
IsIntBody(s) ==
    /\ s # <<>>
    /\ \A i \in 1..Len(s) : s[i] \in Digits \cup {"_"}
    /\ s[1] # "_" /\ s[Len(s)] # "_"
    /\ \A i \in 1..(Len(s) - 1) : ~(s[i] = "_" /\ s[i + 1] = "_")

IntBodyVal(s) == DecVal(SelectSeq(s, LAMBDA c : c # "_"))

\* int(text); ok = FALSE stands for ValueError
ParseInt(text) ==
    LET t == Strip(text)
        signed == t # <<>> /\ t[1] \in {"+", "-"}
        body == IF signed THEN Tail(t) ELSE t
    IN  IF IsIntBody(body)
        THEN [ok |-> TRUE,
              val |-> IF signed /\ t[1] = "-" THEN 0 - IntBodyVal(body) ELSE IntBodyVal(body)]
        ELSE [ok |-> FALSE, val |-> 0]

\* seq[i] for a Python index i; ok = FALSE stands for IndexError
PyIndex(seq, i) ==
    LET k == IF i < 0 THEN i + Len(seq) ELSE i
    IN  [ok |-> k >= 0 /\ k < Len(seq), pos |-> k + 1]

\* parts[lo:hi] with non-negative lo, hi
Slice(parts, lo, hi) ==
    SubSeq(parts, lo + 1, IF hi > Len(parts) THEN Len(parts) ELSE hi)

ZipSuffix == <<".", "z", "i", "p">>

\* Path.stem of a name matched by *.zip
Stem(name) == SubSeq(name, 1, Len(name) - Len(ZipSuffix))

(***************************************************************************)
(* The data directory                                                      *)
(***************************************************************************)
\* a relationship file: absent, or the values found in its JSON entries
Missing == [exists |-> FALSE, values |-> {}]

File(values) == [exists |-> TRUE, values |-> values]

NoFiles == [followers |-> Missing, following |-> Missing]

Entry(name, kind, files) ==
    [name |-> name, kind |-> kind,
     followers |-> files.followers, following |-> files.following]

Names(dir) == {dir[i].name : i \in 1..Len(dir)}

Exists(dir, name) == name \in Names(dir)

Lookup(dir, name) == dir[CHOOSE i \in 1..Len(dir) : dir[i].name = name]

IsDir(dir, name) == Exists(dir, name) /\ Lookup(dir, name).kind = "dir"

Entries(dir) == {dir[i] : i \in 1..Len(dir)}

\* DATA_DIR.glob("*.zip"): the listing is taken when the iteration starts
GlobZip(dir) == SelectSeq(dir, LAMBDA e : EndsWith(e.name, ZipSuffix))

Remove(dir, name) == SelectSeq(dir, LAMBDA e : e.name # name)

InsertAt(dir, pos, e) ==
    SubSeq(dir, 1, pos - 1) \o <<e>> \o SubSeq(dir, pos, Len(dir))

Msg(m, a, b, l) == [msg |-> m, a |-> a, b |-> b, list |-> l, lines |-> <<>>]

(***************************************************************************)
(* Dates                                                                   *)
(***************************************************************************)
Date(y, m, d) == [year |-> y, month |-> m, day |-> d]

NoDate == Date(0, 0, 0)

\* date.__lt__
DateLess(a, b) ==
    \/ a.year < b.year
    \/ a.year = b.year /\ a.month < b.month
    \/ a.year = b.year /\ a.month = b.month /\ a.day < b.day

IsLeap(y) == (y % 4 = 0 /\ y % 100 # 0) \/ y % 400 = 0

DaysInMonth(y, m) ==
    IF m = 2 THEN (IF IsLeap(y) THEN 29 ELSE 28)
    ELSE IF m \in {4, 6, 9, 11} THEN 30
    ELSE 31

\* the directive %Y of strptime: exactly four digits
MatchYear(f) == Len(f) = 4 /\ IsDigits(f)

\* the directive %m: 1[0-2]|0[1-9]|[1-9]
MatchMonth(f) == Len(f) \in {1, 2} /\ IsDigits(f) /\ DecVal(f) \in 1..12

\* the directive %d: 3[0-1]|[1-2]\d|0[1-9]|[1-9]| [1-9]
MatchDay(f) ==
    \/ Len(f) \in {1, 2} /\ IsDigits(f) /\ DecVal(f) \in 1..31
    \/ Len(f) = 2 /\ f[1] = " " /\ f[2] \in Digits /\ f[2] # "0"

DayVal(f) == IF f[1] = " " THEN DecVal(Tail(f)) ELSE DecVal(f)

\* datetime.strptime(value, "%Y-%m-%d").date(); ok = FALSE stands for ValueError
parse_date(value) ==
    LET f == Split(value, "-")
    IN  IF /\ Len(f) = 3
           /\ MatchYear(f[1]) /\ MatchMonth(f[2]) /\ MatchDay(f[3])
           /\ DecVal(f[1]) >= 1
           /\ DayVal(f[3]) <= DaysInMonth(DecVal(f[1]), DecVal(f[2]))
        THEN [ok |-> TRUE, date |-> Date(DecVal(f[1]), DecVal(f[2]), DayVal(f[3]))]
        ELSE [ok |-> FALSE, date |-> NoDate]

DigitChar(n) == Alphabet[Ord("0") + n]

RECURSIVE Pad(_, _)
\* the decimal digits of n, zero-padded to the given width
Pad(n, width) ==
    IF width = 0 THEN <<>>
    ELSE Pad(n \div 10, width - 1) \o <<DigitChar(n % 10)>>

\* date.isoformat()
isoformat(d) == Pad(d.year, 4) \o <<"-">> \o Pad(d.month, 2) \o <<"-">> \o Pad(d.day, 2)

(***************************************************************************)
(* Snapshot locator                                                        *)
(***************************************************************************)
instagram == <<"i", "n", "s", "t", "a", "g", "r", "a", "m">>

RECURSIVE SortStrs(_)
\* sorted() of a set of str
SortStrs(S) ==
    IF S = {} THEN <<>>
    ELSE LET m == CHOOSE x \in S : \A y \in S \ {x} : StrLess(x, y)
         IN  <<m>> \o SortStrs(S \ {m})

\* the account name list_accounts derives from one directory name
AccountParts(parts) == Slice(parts, 1, Len(parts) - 4)

list_accounts(dir) ==
    LET globbed == SelectSeq(dir, LAMBDA e : StartsWith(e.name, instagram \o <<"-">>))
        good == {i \in 1..Len(globbed) :
                    /\ globbed[i].kind = "dir"
                    /\ Len(Split(globbed[i].name, "-")) >= 6
                    /\ Split(globbed[i].name, "-")[1] = instagram
                    /\ AccountParts(Split(globbed[i].name, "-")) # <<>>}
    IN  SortStrs({Join(AccountParts(Split(globbed[i].name, "-")), "-") : i \in good})

\* the date string list_snapshots cuts out of one directory name
DateParts(parts) == Slice(parts, 2, 5)

RECURSIVE SortByDate(_)
\* sorted(snapshots, key=lambda item: item[0]), which is stable
SortByDate(s) ==
    IF s = <<>> THEN <<>>
    ELSE LET front == SortByDate(SubSeq(s, 1, Len(s) - 1))
             x == s[Len(s)]
         IN  SelectSeq(front, LAMBDA e : ~DateLess(x.date, e.date))
             \o <<x>>
             \o SelectSeq(front, LAMBDA e : DateLess(x.date, e.date))

RECURSIVE MapSnapshots(_)
MapSnapshots(paths) ==
    IF paths = <<>> THEN <<>>
    ELSE LET path == Head(paths)
             parts == Split(path.name, "-")
             parsed == parse_date(Join(DateParts(parts), "-"))
         IN  IF path.kind = "dir" /\ Len(parts) >= 6 /\ parsed.ok
             THEN <<[date |-> parsed.date, path |-> path.name]>> \o MapSnapshots(Tail(paths))
             ELSE MapSnapshots(Tail(paths))

list_snapshots(dir, acct) ==
    LET prefix == instagram \o <<"-">> \o acct \o <<"-">>
    IN  SortByDate(MapSnapshots(SelectSeq(dir, LAMBDA e : StartsWith(e.name, prefix))))

NotFound == [found |-> FALSE, path |-> <<>>]

\* a lookup that falls back to the oldest snapshot
FirstOrOldest(snaps, target_date) ==
    IF snaps = <<>> THEN NotFound
    ELSE IF \E i \in 1..Len(snaps) : snaps[i].date = target_date
         THEN [found |-> TRUE,
               path |-> snaps[CHOOSE i \in 1..Len(snaps) :
                                 /\ snaps[i].date = target_date
                                 /\ \A j \in 1..(i - 1) : snaps[j].date # target_date].path]
         ELSE [found |-> TRUE, path |-> Head(snaps).path]

RECURSIVE FirstMatch(_, _)
FirstMatch(snaps, target_date) ==
    IF snaps = <<>> THEN NotFound
    ELSE IF Head(snaps).date = target_date
         THEN [found |-> TRUE, path |-> Head(snaps).path]
         ELSE FirstMatch(Tail(snaps), target_date)

\* found = FALSE stands for raising SnapshotNotFound
find_snapshot(dir, acct, target_date) ==
    FirstMatch(list_snapshots(dir, acct), target_date)

(***************************************************************************)
(* Relationship loaders                                                    *)
(***************************************************************************)
\* the set built from the "value" fields; a falsy value is skipped
Usernames(values) == {v \in values : v # <<>>}

\* ok = FALSE stands for FileNotFoundError
load_followers(dir, path) ==
    IF ~Lookup(dir, path).followers.exists
    THEN [ok |-> FALSE, names |-> {}]
    ELSE [ok |-> TRUE, names |-> Usernames(Lookup(dir, path).followers.values)]

load_following(dir, path) ==
    IF ~Lookup(dir, path).following.exists
    THEN [ok |-> FALSE, names |-> {}]
    ELSE [ok |-> TRUE, names |-> Usernames(Lookup(dir, path).following.values)]

(***************************************************************************)
(* Diff reporter                                                           *)
(***************************************************************************)
SortPairAsGiven(date_a, date_b) == <<date_a, date_b>>

\* sorted([date_a, date_b])
SortPair(date_a, date_b) ==
    IF DateLess(date_b, date_a) THEN <<date_b, date_a>> ELSE <<date_a, date_b>>

GainedAll(followers_earlier, followers_later) == followers_later

Gained(followers_earlier, followers_later) == followers_later \ followers_earlier

Lost(followers_earlier, followers_later) == followers_earlier \ followers_later

FollowersNotFollowed(followers_later, following_later) == followers_later \ following_later

NotFollowedBack(followers_later, following_later) == following_later \ followers_later

NetChangeSwapped(followers_earlier, followers_later) ==
    Cardinality(followers_earlier) - Cardinality(followers_later)

NetChange(followers_earlier, followers_later) ==
    Cardinality(followers_later) - Cardinality(followers_earlier)

Line(tag, a, b, nums) == [tag |-> tag, a |-> a, b |-> b, nums |-> nums]

\* one section of the report: its header, then the names or "  None"
Section(header, mark, names) ==
    <<Line(header, <<>>, <<>>, <<>>)>> \o
    (IF names # <<>>
     THEN [i \in 1..Len(names) |-> Line(mark, names[i], <<>>, <<>>)]
     ELSE <<Line("  None", <<>>, <<>>, <<>>)>>)

ReportLines(acct, earlier, later, followers_earlier, followers_later, following_later) ==
    <<Line("Account:", acct, <<>>, <<>>),
      Line("Comparing", isoformat(earlier), isoformat(later), <<>>),
      Line("Followers then/now/net", <<>>, <<>>,
           <<Cardinality(followers_earlier), Cardinality(followers_later),
             NetChange(followers_earlier, followers_later)>>)>>
    \o Section("Followers gained:", "  + ",
               SortStrs(Gained(followers_earlier, followers_later)))
    \o Section("Followers lost:", "  - ",
               SortStrs(Lost(followers_earlier, followers_later)))
    \o Section("Following but not followed back (latest snapshot):", "  * ",
               SortStrs(NotFollowedBack(followers_later, following_later)))

AvailableDates(snaps) == [i \in 1..Len(snaps) |-> isoformat(snaps[i].date)]

Failure(printed, raised, opened) ==
    [called |-> TRUE, ok |-> FALSE, lines |-> <<>>, earlier |-> NoDate, later |-> NoDate,
     printed |-> printed, raised |-> raised, loaded |-> opened]

Opened(path, file) == [path |-> path, file |-> file]

\* the whole call: what it prints, what it returns or raises, which files it opens
summarize_changes(dir, acct, date_a, date_b) ==
    LET earlier == SortPair(date_a, date_b)[1]
        later == SortPair(date_a, date_b)[2]
        snaps == list_snapshots(dir, acct)
        available_dates == AvailableDates(snaps)
        earlier_path == find_snapshot(dir, acct, earlier)
        later_path == find_snapshot(dir, acct, later)
        followers_earlier == load_followers(dir, earlier_path.path)
        followers_later == load_followers(dir, later_path.path)
        following_later == load_following(dir, later_path.path)
        lines == ReportLines(acct, earlier, later, followers_earlier.names,
                             followers_later.names, following_later.names)
    IN  IF snaps = <<>>
        THEN Failure(<<Msg("No snapshots found for account", acct, <<>>, <<>>)>>, "", <<>>)
        ELSE IF ~earlier_path.found
        THEN Failure(<<Msg("Could not find snapshot for", isoformat(earlier), <<>>,
                           available_dates)>>, "", <<>>)
        ELSE IF ~later_path.found
        THEN Failure(<<Msg("Could not find snapshot for", isoformat(later), <<>>,
                           available_dates)>>, "", <<>>)
        ELSE IF ~followers_earlier.ok
        THEN Failure(<<>>, "FileNotFoundError", <<Opened(earlier_path.path, "followers")>>)
        ELSE IF ~followers_later.ok
        THEN Failure(<<>>, "FileNotFoundError",
                     <<Opened(earlier_path.path, "followers"),
                       Opened(later_path.path, "followers")>>)
        ELSE IF ~following_later.ok
        THEN Failure(<<>>, "FileNotFoundError",
                     <<Opened(earlier_path.path, "followers"),
                       Opened(later_path.path, "followers"),
                       Opened(later_path.path, "following")>>)
        ELSE [called |-> TRUE, ok |-> TRUE, lines |-> lines,
              earlier |-> earlier, later |-> later,
              printed |-> <<[Msg("report", <<>>, <<>>, <<>>) EXCEPT !.lines = lines]>>,
              raised |-> "",
              loaded |-> <<Opened(earlier_path.path, "followers"),
                           Opened(later_path.path, "followers"),
                           Opened(later_path.path, "following")>>]

(***************************************************************************)
(* unpack_archives                                                         *)
(***************************************************************************)
NoCall == [called |-> FALSE, account |-> <<>>, date_a |-> NoDate, date_b |-> NoDate]

NoResult ==
    [called |-> FALSE, ok |-> FALSE, lines |-> <<>>, earlier |-> NoDate, later |-> NoDate,
     printed |-> <<>>, raised |-> "", loaded |-> <<>>]

mainVars == <<accounts, account, snapshots, inputs, exported>>
callVars == <<args, result>>

\* for archive in DATA_DIR.glob("*.zip"):
UnpackStart ==
    /\ pc = "unpack"
    /\ pending' = GlobZip(dataDir)
    /\ dirAtStart' = dataDir
    /\ extracted' = {}
    /\ deleted' = {}
    /\ pc' = "unpack_loop"
    /\ UNCHANGED <<dataDir, out, runs, mainVars, callVars>>

ShouldDeleteAlways(didExtract) == TRUE

\* should_delete after the with block of one loop iteration
ShouldDelete(didExtract) == didExtract

\* one iteration of the loop body
UnpackOne ==
    /\ pc = "unpack_loop"
    /\ pending # <<>>
    /\ LET archive == Head(pending)
           dest == Stem(archive.name)
       IN  /\ pending' = Tail(pending)
           /\ CASE archive.kind = "dir" ->
                     \* zipfile.ZipFile(directory) raises IsADirectoryError,
                     \* which the except clause does not catch
                     /\ pc' = "crashed"
                     /\ UNCHANGED <<dataDir, out, extracted, deleted>>
                [] archive.kind = "badzip" ->
                     /\ out' = Append(out, Msg("Skipping invalid zip", archive.name, <<>>, <<>>))
                     /\ pc' = pc
                     /\ UNCHANGED <<dataDir, extracted, deleted>>
                [] archive.kind = "emptyzip" ->
                     /\ dataDir' = IF ShouldDelete(FALSE) THEN Remove(dataDir, archive.name) ELSE dataDir
                     /\ deleted' = IF ShouldDelete(FALSE) THEN deleted \cup {archive.name} ELSE deleted
                     /\ pc' = pc
                     /\ UNCHANGED <<out, extracted>>
                [] archive.kind = "zip" /\ Exists(dataDir, dest) ->
                     /\ dataDir' = IF ShouldDelete(FALSE) THEN Remove(dataDir, archive.name) ELSE dataDir
                     /\ deleted' = IF ShouldDelete(FALSE) THEN deleted \cup {archive.name} ELSE deleted
                     /\ pc' = pc
                     /\ UNCHANGED <<out, extracted>>
                [] archive.kind = "zip" /\ ~Exists(dataDir, dest) ->
                     /\ \E pos \in 1..(Len(dataDir) + 1) :
                          LET made == InsertAt(dataDir, pos,
                                               Entry(dest, "dir", archive))
                          IN  dataDir' = IF ShouldDelete(TRUE)
                                         THEN Remove(made, archive.name)
                                         ELSE made
                     /\ extracted' = extracted \cup {archive.name}
                     /\ deleted' = IF ShouldDelete(TRUE) THEN deleted \cup {archive.name} ELSE deleted
                     /\ out' = Append(out, Msg("Extracted", archive.name, dest, <<>>))
                     /\ pc' = pc
    /\ UNCHANGED <<runs, dirAtStart, mainVars, callVars>>

\* the loop is exhausted and unpack_archives returns to its caller
UnpackReturn ==
    /\ pc = "unpack_loop"
    /\ pending = <<>>
    /\ runs' = runs + 1
    /\ pc' = "unpacked"
    /\ UNCHANGED <<dataDir, pending, out, dirAtStart, extracted, deleted,
                   mainVars, callVars>>

\* the caller runs unpack_archives again
UnpackAgain ==
    /\ pc = "unpacked"
    /\ runs < MaxRuns
    /\ pc' = "unpack"
    /\ UNCHANGED <<dataDir, pending, out, runs, dirAtStart, extracted, deleted,
                   mainVars, callVars>>

\* archive names a, a.zip, a.zip.zip, ...
RECURSIVE ZipName(_, _)
ZipName(base, k) == IF k = 0 THEN base ELSE ZipName(base, k - 1) \o ZipSuffix

UnpackNames == {ZipName(<<"a">>, k) : k \in 0..MaxZipDepth}

FileKinds == {"dir", "zip", "emptyzip", "badzip"}

UnpackEntries == {Entry(n, k, NoFiles) : n \in UnpackNames, k \in FileKinds}

\* the listings of a directory: no two entries share a name
Listings(entries, maxLen) ==
    {s \in UNION {[1..n -> entries] : n \in 0..maxLen} :
        \A i, j \in 1..Len(s) : s[i].name = s[j].name => i = j}

InitIdle ==
    /\ pending = <<>>
    /\ out = <<>>
    /\ runs = 0
    /\ extracted = {}
    /\ deleted = {}
    /\ accounts = <<>>
    /\ account = <<>>
    /\ snapshots = <<>>
    /\ inputs = <<>>
    /\ args = NoCall
    /\ result = NoResult
    /\ exported = {}

InitUnpack ==
    /\ dataDir \in Listings(UnpackEntries, MaxEntries)
    /\ dirAtStart = dataDir
    /\ pc = "unpack"
    /\ InitIdle

NextUnpack == UnpackStart \/ UnpackOne \/ UnpackReturn \/ UnpackAgain

SpecUnpack == InitUnpack /\ [][NextUnpack]_vars

(***************************************************************************)
(* Calls of summarize_changes on a data directory that holds snapshots     *)
(***************************************************************************)
jane == <<"j", "a", "n", "e">>
doe == <<"d", "o", "e">>
extra == <<"e", "x", "t", "r", "a">>
alice == <<"a", "l", "i", "c", "e">>
bob == <<"b", "o", "b">>
carol == <<"c", "a", "r", "o", "l">>
dave == <<"d", "a", "v", "e">>

DirName(acctParts, y, m, d, suffix) ==
    Join(<<instagram>> \o acctParts \o <<y, m, d>> \o suffix, "-")

Y2023 == <<"2", "0", "2", "3">>

AccountPool == {<<jane>>, <<jane, doe>>}
MonthPool == {<<"0", "1">>, <<"1">>, <<"0", "2">>, <<"1", "3">>}
Day15 == <<"1", "5">>

\* names that follow the naming convention, with valid and invalid dates,
\* and a name that lacks the suffix
LayoutNames ==
    {DirName(a, Y2023, m, Day15, <<extra>>) : a \in AccountPool, m \in MonthPool}
    \cup {DirName(<<jane>>, Y2023, <<"0", "1">>, Day15, <<>>)}

SmallFiles ==
    {NoFiles, [followers |-> File({alice}), following |-> File({alice, bob})]}

LayoutEntries == {Entry(n, "dir", f) : n \in LayoutNames, f \in SmallFiles}

BoundedSubsets(S, n) == {T \in SUBSET S : Cardinality(T) <= n}

FollowersFiles ==
    {Missing} \cup {File(v) : v \in BoundedSubsets({alice, bob, carol, <<>>}, MaxFileEntries)}

FollowingFiles ==
    {Missing} \cup {File(v) : v \in BoundedSubsets({bob, dave}, MaxFileEntries)}

DiffNames ==
    <<DirName(<<jane>>, Y2023, <<"0", "1">>, Day15, <<extra>>),
      DirName(<<jane>>, Y2023, <<"0", "2">>, Day15, <<extra>>)>>

\* two snapshots of one account with any content of their relationship files
DiffListings ==
    {[i \in 1..Len(DiffNames) |->
         Entry(DiffNames[i], "dir", [followers |-> fs[i], following |-> fg[i]])] :
        fs \in [1..Len(DiffNames) -> FollowersFiles],
        fg \in [1..Len(DiffNames) -> FollowingFiles]}

RequestAccounts == {Join(a, "-") : a \in AccountPool}

RequestDates == {Date(2023, 1, 15), Date(2023, 2, 15), Date(2023, 3, 15)}

InitSummarize ==
    /\ \/ dataDir \in Listings(LayoutEntries, MaxDirs)
       \/ dataDir \in DiffListings
    /\ dirAtStart = dataDir
    /\ pc = "idle"
    /\ InitIdle

Call(acct, date_a, date_b) ==
    [called |-> TRUE, account |-> acct, date_a |-> date_a, date_b |-> date_b]

\* a caller runs summarize_changes(account, date_a, date_b)
SummarizeCall ==
    /\ pc = "idle"
    /\ \E acct \in RequestAccounts, date_a \in RequestDates, date_b \in RequestDates :
          /\ args' = Call(acct, date_a, date_b)
          /\ result' = summarize_changes(dataDir, acct, date_a, date_b)
    /\ out' = out \o result'.printed
    /\ pc' = "returned"
    /\ UNCHANGED <<dataDir, pending, runs, dirAtStart, extracted, deleted, mainVars>>

NextSummarize == SummarizeCall

SpecSummarize == InitSummarize /\ [][NextSummarize]_vars

(***************************************************************************)
(* Properties of summarize_changes                                         *)
(***************************************************************************)
\* the usernames a report lists under one mark, in the order it lists them
Listed(lines, mark) ==
    LET sel == SelectSeq(lines, LAMBDA l : l.tag = mark)
    IN  [i \in 1..Len(sel) |-> sel[i].a]

Range(s) == {s[i] : i \in 1..Len(s)}

Ascending(s) == \A i, j \in 1..Len(s) : i < j => StrLess(s[i], s[j])

ReportedNet(lines) == lines[3].nums[3]

\* the usernames stored for the snapshot a date resolves to
FollowersAt(acct, d) == load_followers(dataDir, find_snapshot(dataDir, acct, d).path).names
FollowingAt(acct, d) == load_following(dataDir, find_snapshot(dataDir, acct, d).path).names

DatesOf(snaps) == {snaps[i].date : i \in 1..Len(snaps)}

\* C1: summarize_changes(account, a, b) and summarize_changes(account, b, a)
\* print the same text and return the same value
C1_OrderIndependent ==
    result.called =>
        result = summarize_changes(dataDir, args.account, args.date_b, args.date_a)

C1_Witness ==
    /\ result.called
    /\ result.ok
    /\ DateLess(args.date_b, args.date_a)

\* C5: with at least one snapshot of the account and a requested date that
\* matches none, the call returns None after one message that lists the ISO
\* dates of all the account's snapshots, opens no relationship file and
\* raises nothing
C5_NotFoundReported ==
    LET snaps == list_snapshots(dataDir, args.account)
        absent == {args.date_a, args.date_b} \ DatesOf(snaps)
    IN  (result.called /\ snaps # <<>> /\ absent # {})
        =>
        (/\ ~result.ok
         /\ result.raised = ""
         /\ result.loaded = <<>>
         /\ Len(result.printed) = 1
         /\ result.printed[1].msg = "Could not find snapshot for"
         /\ result.printed[1].a \in {isoformat(d) : d \in absent}
         /\ Len(result.printed[1].list) = Len(snaps)
         /\ \A i \in 1..Len(snaps) : result.printed[1].list[i] = isoformat(snaps[i].date))

C5_Witness ==
    LET snaps == list_snapshots(dataDir, args.account)
    IN  /\ result.called
        /\ Len(snaps) >= 2
        /\ SortPair(args.date_a, args.date_b)[1] \in DatesOf(snaps)
        /\ SortPair(args.date_a, args.date_b)[2] \notin DatesOf(snaps)
        /\ ~result.ok

\* C6: the report lists gained = later followers minus earlier followers,
\* lost = earlier followers minus later followers and not_followed_back =
\* later following minus later followers, each ascending without duplicates
C6_DiffLists ==
    result.ok =>
        LET E == FollowersAt(args.account, result.earlier)
            L == FollowersAt(args.account, result.later)
            F == FollowingAt(args.account, result.later)
            gained == Listed(result.lines, "  + ")
            lost == Listed(result.lines, "  - ")
            nfb == Listed(result.lines, "  * ")
        IN  /\ Range(gained) = L \ E
            /\ Range(lost) = E \ L
            /\ Range(nfb) = F \ L
            /\ Ascending(gained) /\ Ascending(lost) /\ Ascending(nfb)

C6_Witness ==
    /\ result.ok
    /\ FollowersAt(args.account, result.earlier) = {alice, bob}
    /\ FollowersAt(args.account, result.later) = {bob, carol}
    /\ FollowingAt(args.account, result.later) = {bob, dave}
    /\ Listed(result.lines, "  + ") = <<carol>>
    /\ Listed(result.lines, "  - ") = <<alice>>
    /\ Listed(result.lines, "  * ") = <<dave>>
    /\ ReportedNet(result.lines) = 0

\* C7: the gained and the lost list share no username, and with equal
\* follower sets both are empty and the net change is 0
C7_GainedLostDisjoint ==
    result.ok =>
        LET gained == Listed(result.lines, "  + ")
            lost == Listed(result.lines, "  - ")
        IN  /\ Range(gained) \cap Range(lost) = {}
            /\ (FollowersAt(args.account, result.earlier) = FollowersAt(args.account, result.later)
                => /\ gained = <<>>
                   /\ lost = <<>>
                   /\ ReportedNet(result.lines) = 0)

C7_Witness ==
    /\ result.ok
    /\ result.earlier # result.later
    /\ FollowersAt(args.account, result.earlier) = FollowersAt(args.account, result.later)
    /\ FollowersAt(args.account, result.earlier) # {}
    /\ Listed(result.lines, "  + ") = <<>>

\* C9: the net change of a report is the number of gained usernames minus
\* the number of lost usernames
C9_NetIsGainedMinusLost ==
    result.ok =>
        ReportedNet(result.lines) =
            Len(Listed(result.lines, "  + ")) - Len(Listed(result.lines, "  - "))

C9_Witness ==
    /\ result.ok
    /\ Listed(result.lines, "  + ") # <<>>
    /\ Listed(result.lines, "  - ") # <<>>
    /\ ReportedNet(result.lines) # 0

(***************************************************************************)
(* Properties of unpack_archives                                           *)
(***************************************************************************)
IsArchiveName(e) == EndsWith(e.name, ZipSuffix) /\ e.kind # "dir"

\* a run that follows a completed run has started, and possibly ended
InLaterRun ==
    \/ runs >= 1 /\ pc \in {"unpack_loop", "crashed"}
    \/ runs >= 2 /\ pc = "unpacked"

\* C8: a second run of unpack_archives leaves the archives and directories
\* of the first run as they are, extracts nothing, deletes nothing and
\* raises no error
C8_UnpackIdempotent ==
    InLaterRun =>
        /\ pc # "crashed"
        /\ extracted = {}
        /\ deleted = {}
        /\ Entries(dataDir) = Entries(dirAtStart)

\* C10: a run deletes an archive only after extracting it into a directory
\* that did not exist; empty and invalid archives and archives whose
\* directory exists stay; when the run has ended every valid non-empty
\* archive is still there or has its directory
C10_DeleteOnlyExtracted ==
    /\ deleted \subseteq extracted
    /\ \A n \in extracted : ~IsDir(dirAtStart, Stem(n)) /\ IsDir(dataDir, Stem(n))
    /\ \A e \in Entries(dirAtStart) :
          (/\ IsArchiveName(e)
           /\ (e.kind \in {"emptyzip", "badzip"} \/ IsDir(dirAtStart, Stem(e.name))))
          => e \in Entries(dataDir)
    /\ pc \in {"unpacked", "crashed"} =>
          \A e \in Entries(dirAtStart) :
             (IsArchiveName(e) /\ e.kind = "zip")
             => (e \in Entries(dataDir) \/ IsDir(dataDir, Stem(e.name)))

C10_Witness ==
    /\ pc = "unpacked"
    /\ deleted # {}
    /\ \E e \in Entries(dirAtStart) :
          IsArchiveName(e) /\ e.kind = "zip" /\ e.name \notin deleted /\ e \in Entries(dataDir)

(***************************************************************************)
(* main                                                                    *)
(***************************************************************************)
FullFiles == [followers |-> File({alice}), following |-> File({alice, bob})]

MainEntries ==
    {Entry(DirName(<<jane>>, Y2023, <<"0", "1">>, Day15, <<extra>>), "dir", FullFiles),
     Entry(DirName(<<jane>>, Y2023, <<"0", "2">>, Day15, <<extra>>), "dir", FullFiles),
     Entry(DirName(<<jane>>, Y2023, <<"0", "2">>, Day15, <<extra>>), "dir", NoFiles),
     Entry(DirName(<<jane>>, Y2023, <<"0", "2">>, Day15, <<extra>>) \o ZipSuffix, "zip",
           [followers |-> File({bob}), following |-> File({})]),
     Entry(DirName(<<jane, doe>>, Y2023, <<"0", "1">>, Day15, <<extra>>), "dir", FullFiles),
     Entry(DirName(<<doe>>, Y2023, <<"0", "1">>, Day15, <<extra>>) \o ZipSuffix, "zip", FullFiles)}

\* the lines a user may type at a prompt
InputPool ==
    {<<"1">>, <<"2">>, <<" ", "2", " ">>, <<"0">>, <<"-", "1">>, <<"3">>, <<"x">>,
     <<"y">>, <<"Y", "e", "s">>}

InitMain ==
    /\ dataDir \in Listings(MainEntries, MaxDirs)
    /\ dirAtStart = dataDir
    /\ pc = "unpack"
    /\ InitIdle

Read(prompt, text, n) == [prompt |-> prompt, text |-> text, n |-> n]

\* accounts = list_accounts() and the menu of accounts
MainListAccounts ==
    /\ pc = "unpacked"
    /\ accounts' = list_accounts(dataDir)
    /\ IF accounts' = <<>>
       THEN /\ out' = Append(out, Msg("No accounts found under the data directory.",
                                      <<>>, <<>>, <<>>))
            /\ pc' = "done"
       ELSE /\ out' = Append(out, Msg("Select an account:", <<>>, <<>>, accounts'))
            /\ pc' = "ask_account"
    /\ UNCHANGED <<dataDir, pending, runs, dirAtStart, extracted, deleted,
                   account, snapshots, inputs, exported, callVars>>

\* the account prompt, up to the menu of snapshot dates
MainSelectAccount ==
    /\ pc = "ask_account"
    /\ \E text \in InputPool :
          LET account_choice == ParseInt(text)
              picked == PyIndex(accounts, account_choice.val - 1)
              found == list_snapshots(dataDir, accounts[picked.pos])
          IN  /\ inputs' = Append(inputs, Read("account", text, Len(accounts)))
              /\ IF ~account_choice.ok \/ ~picked.ok
                 THEN /\ out' = Append(out, Msg("Invalid account selection.", <<>>, <<>>, <<>>))
                      /\ pc' = "done"
                      /\ UNCHANGED <<account, snapshots>>
                 ELSE /\ account' = accounts[picked.pos]
                      /\ snapshots' = found
                      /\ IF found = <<>>
                         THEN /\ out' = Append(out, Msg("No snapshots found for account",
                                                        account', <<>>, <<>>))
                              /\ pc' = "done"
                         ELSE /\ out' = Append(out, Msg("Available snapshot dates:", <<>>, <<>>,
                                                        AvailableDates(found)))
                              /\ pc' = "ask_dates"
    /\ UNCHANGED <<dataDir, pending, runs, dirAtStart, extracted, deleted,
                   accounts, exported, callVars>>

\* the two date prompts and the call of summarize_changes
MainSelectDates ==
    /\ pc = "ask_dates"
    /\ \E text1 \in InputPool, text2 \in InputPool :
          LET first_choice == ParseInt(text1)
              second_choice == ParseInt(text2)
              first == PyIndex(snapshots, first_choice.val - 1)
              second == PyIndex(snapshots, second_choice.val - 1)
              summary == summarize_changes(dataDir, account, snapshots[first.pos].date,
                                           snapshots[second.pos].date)
          IN  IF ~first_choice.ok
              THEN \* the second prompt is never shown
                   /\ inputs' = Append(inputs, Read("first date", text1, Len(snapshots)))
                   /\ out' = Append(out, Msg("Invalid date selection.", <<>>, <<>>, <<>>))
                   /\ pc' = "done"
                   /\ UNCHANGED callVars
              ELSE /\ inputs' = inputs \o <<Read("first date", text1, Len(snapshots)),
                                            Read("second date", text2, Len(snapshots))>>
                   /\ IF ~second_choice.ok \/ ~first.ok \/ ~second.ok
                      THEN /\ out' = Append(out, Msg("Invalid date selection.", <<>>, <<>>, <<>>))
                           /\ pc' = "done"
                           /\ UNCHANGED callVars
                      ELSE /\ args' = Call(account, snapshots[first.pos].date,
                                           snapshots[second.pos].date)
                           /\ result' = summary
                           /\ out' = out \o summary.printed
                           /\ pc' = IF summary.raised # "" THEN "crashed"
                                    ELSE IF summary.ok THEN "ask_export"
                                    ELSE "done"
    /\ UNCHANGED <<dataDir, pending, runs, dirAtStart, extracted, deleted,
                   accounts, account, snapshots, exported>>

ExportName(acct, earlier, later) ==
    acct \o <<"_">> \o isoformat(earlier) \o <<"_", "t", "o", "_">> \o isoformat(later)
    \o <<".", "t", "x", "t">>

\* the export prompt and the write of the export file
MainExport ==
    /\ pc = "ask_export"
    /\ \E text \in InputPool :
          LET export_choice == Lower(Strip(text))
          IN  /\ inputs' = Append(inputs, Read("export", text, 0))
              /\ IF export_choice \in {<<"y">>, <<"y", "e", "s">>}
                 THEN /\ exported' = {f \in exported :
                                         f.name # ExportName(account, result.earlier, result.later)}
                                     \cup {[name |-> ExportName(account, result.earlier, result.later),
                                            lines |-> result.lines]}
                      /\ out' = Append(out, Msg("Saved to",
                                                ExportName(account, result.earlier, result.later),
                                                <<>>, <<>>))
                 ELSE UNCHANGED <<exported, out>>
    /\ pc' = "done"
    /\ UNCHANGED <<dataDir, pending, runs, dirAtStart, extracted, deleted,
                   accounts, account, snapshots, callVars>>

NextMain ==
    \/ UnpackStart
    \/ UnpackOne
    \/ UnpackReturn
    \/ MainListAccounts
    \/ MainSelectAccount
    \/ MainSelectDates
    \/ MainExport

SpecMain == InitMain /\ [][NextMain]_vars

(***************************************************************************)
(* Properties of the CLI flow and of the snapshot locator                  *)
(***************************************************************************)
\* C2: in every report the earlier date is strictly before the later date,
\* whatever the order of the two input dates and also when they are equal
C2_EarlierStrictlyBeforeLater ==
    result.ok => DateLess(result.earlier, result.later)

\* C2 as amended: the earlier date is never after the later date, the two
\* are the input dates, and they are strictly ordered when the inputs differ
C2_EarlierNotAfterLater ==
    result.ok =>
        /\ ~DateLess(result.later, result.earlier)
        /\ {result.earlier, result.later} = {args.date_a, args.date_b}
        /\ (args.date_a # args.date_b => DateLess(result.earlier, result.later))

C2_Witness ==
    /\ result.ok
    /\ DateLess(args.date_b, args.date_a)
    /\ result.earlier = args.date_b
    /\ result.later = args.date_a

\* a name instagram-<account>-<YYYY>-<MM>-<DD>-<suffix> with a calendar date
WellFormed(name) ==
    LET parts == Split(name, "-")
        n == Len(parts)
    IN  /\ n >= 6
        /\ parts[1] = instagram
        /\ \A i \in 2..(n - 4) : parts[i] # <<>>
        /\ Len(parts[n - 3]) = 4 /\ Len(parts[n - 2]) = 2 /\ Len(parts[n - 1]) = 2
        /\ IsDigits(parts[n - 3]) /\ IsDigits(parts[n - 2]) /\ IsDigits(parts[n - 1])
        /\ DecVal(parts[n - 3]) >= 1
        /\ DecVal(parts[n - 2]) \in 1..12
        /\ DecVal(parts[n - 1]) \in 1..DaysInMonth(DecVal(parts[n - 3]), DecVal(parts[n - 2]))

AccountOf(name) == Join(SubSeq(Split(name, "-"), 2, Len(Split(name, "-")) - 4), "-")

DateOf(name) ==
    LET parts == Split(name, "-")
        n == Len(parts)
    IN  Date(DecVal(parts[n - 3]), DecVal(parts[n - 2]), DecVal(parts[n - 1]))

\* C3: for every directory instagram-<account>-<YYYY>-<MM>-<DD>-<suffix>,
\* hyphens in the account included, list_accounts() holds the account and
\* list_snapshots(account) holds the directory with its date
C3_DirectoryParsed ==
    pc \in {"ask_account", "ask_dates", "ask_export", "done"} =>
        \A e \in Entries(dataDir) :
            (e.kind = "dir" /\ WellFormed(e.name)) =>
                /\ AccountOf(e.name) \in Range(list_accounts(dataDir))
                /\ [date |-> DateOf(e.name), path |-> e.name]
                       \in Range(list_snapshots(dataDir, AccountOf(e.name)))

IsInvalidSelection(r) ==
    /\ r.prompt \in {"account", "first date", "second date"}
    /\ (~ParseInt(r.text).ok \/ ParseInt(r.text).val \notin 1..r.n)

\* C4: a selection that is not a number or not in 1..N is reported as
\* invalid and ends the program: nothing is selected by it, no diff is
\* computed and no export file is written
C4_InvalidSelectionRejected ==
    \A i \in 1..Len(inputs) :
        IsInvalidSelection(inputs[i]) =>
            /\ pc = "done"
            /\ out[Len(out)].msg = IF inputs[i].prompt = "account"
                                   THEN "Invalid account selection."
                                   ELSE "Invalid date selection."
            /\ (inputs[i].prompt = "account" => account = <<>>)
            /\ ~result.called
            /\ exported = {}

====
